---- MODULE Spec2Model ----
(***************************************************************************)
(* nullcommits: diff collection and character-budget allocation           *)
(* (src/src/git.js, getSmartStagedDiff and its helpers).                  *)
(*                                                                         *)
(* Texts are sequences of tokens.  Every character of a path or of a diff *)
(* is a one-character token, so Len of such a text is its JavaScript      *)
(* .length; the fixed fragments of template literals are single tokens.   *)
(* The text a token sequence stands for is the concatenation of its       *)
(* tokens.                                                                 *)
(***************************************************************************)
EXTENDS Integers, Sequences, FiniteSets, TLC

\* ------------------------------------------------------------------ bounds
MaxFiles == 3
MaxBudget == 9

\* ------------------------------------------------------- generic helpers
Min(a, b) == IF a <= b THEN a ELSE b

RECURSIVE SumSeq(_)
SumSeq(s) == IF s = <<>> THEN 0 ELSE Head(s) + SumSeq(Tail(s))

Range(s) == {s[i] : i \in DOMAIN s}

NL == "\n"

\* String.prototype.substring(0, n) for n >= 0: clamps n to the length.
Substring(s, n) == SubSeq(s, 1, Min(n, Len(s)))

\* String.prototype.startsWith(prefix)
StartsWith(s, prefix) ==
    /\ Len(prefix) <= Len(s)
    /\ SubSeq(s, 1, Len(prefix)) = prefix

\* String.prototype.trim(): white space is cut from both ends.
IsSpace(c) == c \in {" ", NL}

RECURSIVE trimStart(_)
trimStart(s) ==
    IF s # <<>> /\ IsSpace(Head(s)) THEN trimStart(Tail(s)) ELSE s

RECURSIVE trimEnd(_)
trimEnd(s) ==
    IF s # <<>> /\ IsSpace(s[Len(s)])
    THEN trimEnd(SubSeq(s, 1, Len(s) - 1))
    ELSE s

trim(s) == trimEnd(trimStart(s))

\* String.prototype.split('\n'): the empty text splits into one empty line.
RECURSIVE Split(_)
Split(s) ==
    IF \E i \in DOMAIN s : s[i] = NL
    THEN LET i == CHOOSE k \in DOMAIN s :
                      s[k] = NL /\ \A j \in 1..(k - 1) : s[j] # NL
         IN  <<SubSeq(s, 1, i - 1)>> \o Split(SubSeq(s, i + 1, Len(s)))
    ELSE <<s>>

\* Array.prototype.join('\n') over an array of texts.
RECURSIVE Join(_)
Join(parts) ==
    IF parts = <<>> THEN <<>>
    ELSE IF Len(parts) = 1 THEN parts[1]
    ELSE parts[1] \o <<NL>> \o Join(Tail(parts))

\* Number-to-string conversion of a template literal, one token per character.
Digits == <<"0", "1", "2", "3", "4", "5", "6", "7", "8", "9">>

RECURSIVE DecimalNat(_)
DecimalNat(n) ==
    IF n < 10 THEN <<Digits[n + 1]>>
    ELSE DecimalNat(n \div 10) \o <<Digits[(n % 10) + 1]>>

Decimal(n) == IF n < 0 THEN <<"-">> \o DecimalNat(0 - n) ELSE DecimalNat(n)

\* ------------------------------------------------------ media classifier
Upper == <<"A", "B", "C", "D", "E", "F", "G", "H", "I", "J", "K", "L", "M",
           "N", "O", "P", "Q", "R", "S", "T", "U", "V", "W", "X", "Y", "Z">>
Lower == <<"a", "b", "c", "d", "e", "f", "g", "h", "i", "j", "k", "l", "m",
           "n", "o", "p", "q", "r", "s", "t", "u", "v", "w", "x", "y", "z">>

toLowerCase(s) ==
    [i \in DOMAIN s |->
        IF \E k \in DOMAIN Upper : Upper[k] = s[i]
        THEN Lower[CHOOSE k \in DOMAIN Upper : Upper[k] = s[i]]
        ELSE s[i]]

\* path.basename / path.extname (POSIX): the extension runs from the last
\* "." of the last path segment to its end; no "." or a "." that starts
\* the segment gives the empty extension.
basename(p) ==
    IF \E i \in DOMAIN p : p[i] = "/"
    THEN LET i == CHOOSE k \in DOMAIN p :
                      p[k] = "/" /\ \A j \in (k + 1)..Len(p) : p[j] # "/"
         IN  SubSeq(p, i + 1, Len(p))
    ELSE p

extname(p) ==
    LET b == basename(p) IN
    IF \E i \in DOMAIN b : b[i] = "."
    THEN LET i == CHOOSE k \in DOMAIN b :
                      b[k] = "." /\ \A j \in (k + 1)..Len(b) : b[j] # "."
         IN  IF i = 1 THEN <<>> ELSE SubSeq(b, i, Len(b))
    ELSE <<>>

MEDIA_EXTENSIONS ==
    { <<".", "p", "n", "g">>, <<".", "g", "i", "f">>, <<".", "j", "p", "g">>,
      <<".", "j", "p", "e", "g">>, <<".", "w", "e", "b", "p">>,
      <<".", "s", "v", "g">>, <<".", "i", "c", "o">>, <<".", "b", "m", "p">>,
      <<".", "t", "i", "f", "f">>, <<".", "t", "i", "f">>,
      <<".", "a", "v", "i", "f">>,
      <<".", "m", "p", "4">>, <<".", "m", "o", "v">>, <<".", "a", "v", "i">>,
      <<".", "m", "k", "v">>, <<".", "w", "e", "b", "m">>,
      <<".", "w", "m", "v">>, <<".", "f", "l", "v">>, <<".", "m", "4", "v">>,
      <<".", "m", "p", "3">>, <<".", "w", "a", "v">>, <<".", "o", "g", "g">>,
      <<".", "f", "l", "a", "c">>, <<".", "a", "a", "c">>,
      <<".", "m", "4", "a">>, <<".", "w", "m", "a">> }

isMediaFile(filePath) == toLowerCase(extname(filePath)) \in MEDIA_EXTENSIONS

isCodeFile(filePath) == ~isMediaFile(filePath)

\* ---------------------------------------------------- line-change counter
\* Variant of CountLoop: the +++ and --- file headers are counted as changes.
RECURSIVE CountLoopNoHeader(_, _)
CountLoopNoHeader(lines, acc) ==
    IF lines = <<>> THEN acc
    ELSE LET line == Head(lines) IN
         CountLoopNoHeader(Tail(lines),
            IF StartsWith(line, <<"+">>)
            THEN [acc EXCEPT !.added = @ + 1]
            ELSE IF StartsWith(line, <<"-">>)
            THEN [acc EXCEPT !.removed = @ + 1]
            ELSE acc)

\* lines 86-98: the loop over the lines of the diff
RECURSIVE CountLoop(_, _)
CountLoop(lines, acc) ==
    IF lines = <<>> THEN acc
    ELSE LET line == Head(lines) IN
         CountLoop(Tail(lines),
            IF StartsWith(line, <<"+">>) /\ ~StartsWith(line, <<"+", "+", "+">>)
            THEN [acc EXCEPT !.added = @ + 1]
            ELSE IF StartsWith(line, <<"-">>)
                    /\ ~StartsWith(line, <<"-", "-", "-">>)
            THEN [acc EXCEPT !.removed = @ + 1]
            ELSE acc)

countDiffLines(diff) == CountLoop(Split(diff), [added |-> 0, removed |-> 0])

\* ------------------------------------------------- the inputs of the model
\* Paths git can report as staged.  ".png" is a dot-file (empty extension),
\* "b.PNG" has an upper-case extension, "d/y.mp3" lies in a directory.
PathA == <<"a", ".", "j", "s">>
PathB == <<".", "p", "n", "g">>
PathC == <<"m", "k">>
PathX == <<"b", ".", "P", "N", "G">>
PathY == <<"d", "/", "y", ".", "m", "p", "3">>

\* The order in which git reports these paths (byte order).
GitOrder == <<PathB, PathA, PathX, PathY, PathC>>

Paths == Range(GitOrder)

CodePaths == {p \in Paths : isCodeFile(p)}

\* Diff texts git can return for one path; the empty text is also what
\* getFileDiff returns when both of its queries fail.
DiffEmpty == <<>>
DiffOne == <<"+", "a">>
DiffTwo == <<"+", "a", NL, "-", "b">>
DiffHdr == <<"-", "-", "-", NL, "+", "+", "+", NL, "+", "x", NL, "-", "y">>

DiffTexts == {DiffEmpty, DiffOne, DiffTwo, DiffHdr}

Budgets == 1..MaxBudget


\* Sequences of distinct paths of length at most MaxFiles.
RECURSIVE ListsOfLen(_)
ListsOfLen(n) ==
    IF n = 0 THEN {<<>>}
    ELSE {Append(l, p) : l \in ListsOfLen(n - 1), p \in Paths}

StagedLists ==
    {l \in UNION {ListsOfLen(n) : n \in 0..MaxFiles} :
        \A i, j \in DOMAIN l : i # j => l[i] # l[j]}

GitPos(p) == CHOOSE k \in DOMAIN GitOrder : GitOrder[k] = p

\* The lists git reports: in its own order.
GitLists ==
    {l \in StagedLists :
        \A i, j \in DOMAIN l : i < j => GitPos(l[i]) < GitPos(l[j])}

\* The code files and the media files of each list, in order.
CodeOf == [l \in StagedLists |-> SelectSeq(l, isCodeFile)]
MediaOf == [l \in StagedLists |-> SelectSeq(l, isMediaFile)]

\* ------------------------------------------------------------------ state
VARIABLES
    staged,             \* git: the staged paths, in reporting order
    repoDiff,           \* git: the diff text of each path
    budget,             \* the argument of the running call
    pc,                 \* position of the running call
    files,              \* getSmartStagedDiff locals, by their source names
    mediaFiles,
    codeFiles,
    fileDiffs,
    totalLinesChanged,
    budgetPerFile,
    unusedBudget,
    truncatedFiles,     \* indices into fileDiffs (the array holds references)
    diffParts,
    result,             \* the returned { diff, totalLinesChanged, fileCount }
    prev,               \* what the previous call was given and returned
    queries,            \* git: the queries the running call has issued
    cdText,             \* countDiffLines: the argument
    cdOut,              \* countDiffLines: the returned { added, removed }
    qFn,                \* which query function is running: "list" or "diff"
    qPrimary,           \* git: how the --cached query ends
    qFallback,          \* git: how the HEAD query ends
    qpc,                \* position inside the query function
    qIssued,            \* the execSync calls made so far
    qRet,               \* what the query function returned
    cfgFile,            \* ~/.nullcommitsrc
    envKey,             \* process.env.OPENAI_API_KEY is set and not empty
    envBudget,          \* process.env.NULLCOMMITS_DIFF_BUDGET ("" when unset)
    gotBudget,          \* what the last getDiffBudget() call returned
    cmdError,           \* the last config command threw
    lastSet,            \* set-diff-budget: the budget last stored, and the
                        \* config file before the last call
    msgFile,            \* the commit message file git hands to the hook
    hInitial,           \* the commit message file as git wrote it
    hDiff,              \* git: the diff getSmartStagedDiff returns to the hook
    hReply,             \* the text-generation service: how a request ends
    hpc,                \* position inside processCommitMessage
    originalMessage,    \* processCommitMessage locals, by their source names
    enhancedMessage,
    hRequests,          \* requests sent to the text-generation service
    hWrites,            \* fs.writeFileSync calls on the message file
    isRepo,             \* the working directory lies in a git repository
    hooksDir,           \* .git/hooks exists
    hookFile,           \* .git/hooks/prepare-commit-msg
    backupFile,         \* .git/hooks/prepare-commit-msg.backup
    lastCmd,            \* the last install / uninstall: outcome, files before
    tripFrom            \* files before an install that was then uninstalled

env == <<staged, repoDiff, budget>>
locals == <<files, mediaFiles, codeFiles, fileDiffs, totalLinesChanged,
            budgetPerFile, unusedBudget, truncatedFiles, diffParts>>
counterVars == <<cdText, cdOut>>
collectorVars == <<qFn, qPrimary, qFallback, qpc, qIssued, qRet>>
configVars == <<cfgFile, envKey, envBudget, gotBudget, cmdError, lastSet>>
hookVars == <<msgFile, hInitial, hDiff, hReply, hpc, originalMessage,
              enhancedMessage, hRequests, hWrites>>
installVars == <<isRepo, hooksDir, hookFile, backupFile, lastCmd, tripFrom>>
outside == <<counterVars, collectorVars, configVars, hookVars, installVars>>
allocatorVars == <<staged, repoDiff, budget, pc, files, mediaFiles, codeFiles,
                   fileDiffs, totalLinesChanged, budgetPerFile, unusedBudget,
                   truncatedFiles, diffParts, result, prev, queries>>
vars == <<allocatorVars, outside>>

\* --------------------------------------------------- per-file diff collector
\* The sequence / text the query chain ends up returning (primary query,
\* else fallback query, else empty): staged and repoDiff hold the outcome of
\* the chain, the empty list and the empty text included.
getStagedFileList == staged

getFileDiff(filePath) == repoDiff[filePath]

\* ----------------------------------------------------------- diff assembler
HeaderPart == [kind |-> "header"]
MediaPart(file) == [kind |-> "media", file |-> file]
BlankPart == [kind |-> "blank"]
TextPart(text) == [kind |-> "text", text |-> text]
NotePart(file, omitted) == [kind |-> "note", file |-> file, omitted |-> omitted]

\* The string each element of diffParts is.
Render(part) ==
    CASE part.kind = "header" ->
            <<"--- Media files (binary, showing names only) ---">>
      [] part.kind = "media" -> <<"[Media] ">> \o part.file
      [] part.kind = "blank" -> <<>>
      [] part.kind = "text" -> part.text
      [] part.kind = "note" ->
            <<NL, "... [">> \o part.file \o <<" diff truncated, ">>
                \o Decimal(part.omitted) \o <<" chars omitted]">>

RenderAll(parts) == [i \in DOMAIN parts |-> Render(parts[i])]

MediaOnlyLine(f) == <<"[Media file] ">> \o f

\* An fd.allocatedBudget that was never assigned is undefined: the empty set.
Truthy(allocatedBudget) == allocatedBudget # {} /\ allocatedBudget # {0}

ValueOf(allocatedBudget) == CHOOSE n \in allocatedBudget : TRUE

NoResult == [diff |-> <<>>, totalLinesChanged |-> 0, fileCount |-> 0,
             returned |-> FALSE]

Returned(diff, lines, count) ==
    [diff |-> diff, totalLinesChanged |-> lines, fileCount |-> count,
     returned |-> TRUE]

NoPrev == [ran |-> FALSE]

\* A diff of n characters: added lines of 49 characters each.
LongDiff(n) == [i \in 1..n |-> IF i % 50 = 0 THEN NL ELSE "+"]

\* Three code files with diffs of 50, 100 and 1000 characters, budget 300.
ScenarioInit ==
    /\ staged = <<PathB, PathA, PathC>>
    /\ repoDiff = [p \in CodePaths |->
                     IF p = PathB THEN LongDiff(50)
                     ELSE IF p = PathA THEN LongDiff(100)
                     ELSE LongDiff(1000)]
    /\ budget = 300

SmallInit ==
    /\ staged \in GitLists
    /\ repoDiff \in {d \in [CodePaths -> DiffTexts] :
                        \A p \in CodePaths :
                            p \notin Range(staged) => d[p] = DiffEmpty}
    /\ budget \in Budgets

\* No call has run: empty locals, nothing returned, nothing asked of git.
FrameInit ==
    /\ files = <<>>
    /\ mediaFiles = <<>>
    /\ codeFiles = <<>>
    /\ fileDiffs = <<>>
    /\ totalLinesChanged = 0
    /\ budgetPerFile = 0
    /\ unusedBudget = 0
    /\ truncatedFiles = <<>>
    /\ diffParts = <<>>
    /\ result = NoResult
    /\ prev = NoPrev
    /\ queries = <<>>

\* countDiffLines has not been called.
NoCount == [added |-> 0, removed |-> 0, returned |-> FALSE]

CounterIdle ==
    /\ cdText = <<>>
    /\ cdOut = NoCount

\* An execSync call that threw, and one that returned its output.
Threw == [ok |-> FALSE, out |-> <<>>]
Output(text) == [ok |-> TRUE, out |-> text]

\* The query function is still running, or has returned value.
NoReturn == [returned |-> FALSE, raised |-> FALSE, value |-> <<>>]
Return(value) == [returned |-> TRUE, raised |-> FALSE, value |-> value]

CollectorIdle ==
    /\ qFn = "none"
    /\ qPrimary = Threw
    /\ qFallback = Threw
    /\ qpc = "idle"
    /\ qIssued = <<>>
    /\ qRet = NoReturn

\* JavaScript values a JSON field or a variable can hold.
Undefined == [kind |-> "undefined", n |-> 0, s |-> <<>>]
NaN == [kind |-> "NaN", n |-> 0, s |-> <<>>]
JsNum(n) == [kind |-> "number", n |-> n, s |-> <<>>]
JsStr(s) == [kind |-> "string", n |-> 0, s |-> s]

\* The config file: missing, not JSON, or a JSON object (apiKey: whether a
\* non-empty key is stored).
Absent == [kind |-> "absent", apiKey |-> FALSE, diffBudget |-> Undefined]
Garbage == [kind |-> "garbage", apiKey |-> FALSE, diffBudget |-> Undefined]
Object(apiKey, diffBudget) ==
    [kind |-> "object", apiKey |-> apiKey, diffBudget |-> diffBudget]

\* set-diff-budget has not been called.
NoSet == [b |-> Undefined, before |-> Absent]

ConfigIdle ==
    /\ cfgFile = Absent
    /\ envKey = FALSE
    /\ envBudget = <<>>
    /\ gotBudget = Undefined
    /\ cmdError = FALSE
    /\ lastSet = NoSet

\* The message file: missing, or holding a text.
NoFile == [exists |-> FALSE, content |-> <<>>]
File(content) == [exists |-> TRUE, content |-> content]

HookIdle ==
    /\ msgFile = NoFile
    /\ hInitial = NoFile
    /\ hDiff = <<>>
    /\ hReply = Threw
    /\ hpc = "idle"
    /\ originalMessage = <<>>
    /\ enhancedMessage = <<>>
    /\ hRequests = 0
    /\ hWrites = 0

\* The files of the hooks directory, as a command finds them.
HookFiles(dir, hook, backup) == [dir |-> dir, hook |-> hook, backup |-> backup]

NoFiles == HookFiles(FALSE, NoFile, NoFile)

\* No install or uninstall has run; no install was undone.
NoCmd == [name |-> "none", ok |-> TRUE, before |-> NoFiles]
NoTrip == [made |-> FALSE, before |-> NoFiles]

InstallIdle ==
    /\ isRepo = FALSE
    /\ hooksDir = FALSE
    /\ hookFile = NoFile
    /\ backupFile = NoFile
    /\ lastCmd = NoCmd
    /\ tripFrom = NoTrip

OutsideIdle ==
    CounterIdle /\ CollectorIdle /\ ConfigIdle /\ HookIdle /\ InstallIdle

Init ==
    /\ SmallInit \/ ScenarioInit
    /\ pc = "start"
    /\ FrameInit
    /\ OutsideIdle

\* The queries a call sends to git, in the order it sends them.
ListQuery == [q |-> "list", file |-> <<>>]
DiffQuery(filePath) == [q |-> "diff", file |-> filePath]

\* ---------------------------------------------------- getSmartStagedDiff
\* lines 107-111: the file-list query and the early return on no files
ListFiles ==
    /\ pc = "start"
    /\ files' = getStagedFileList
    /\ IF Len(files') = 0
       THEN /\ result' = Returned(<<>>, 0, 0)
            /\ pc' = "done"
       ELSE /\ result' = result
            /\ pc' = "classify"
    /\ queries' = Append(queries, ListQuery)
    /\ UNCHANGED <<outside, env, mediaFiles, codeFiles, fileDiffs, totalLinesChanged,
                   budgetPerFile, unusedBudget, truncatedFiles, diffParts,
                   prev>>

\* Variant of Classify: the line counter lives outside the function.
ClassifyStale ==
    /\ pc = "classify"
    /\ mediaFiles' = SelectSeq(files, isMediaFile)
    /\ codeFiles' = SelectSeq(files, isCodeFile)
    /\ fileDiffs' = <<>>
    /\ pc' = "collect"
    /\ UNCHANGED <<outside, queries, env, files, totalLinesChanged, budgetPerFile, unusedBudget,
                   truncatedFiles, diffParts, result, prev>>

\* lines 113-127: partition into media and code files, fresh accumulators
Classify ==
    /\ pc = "classify"
    /\ mediaFiles' = SelectSeq(files, isMediaFile)
    /\ codeFiles' = SelectSeq(files, isCodeFile)
    /\ fileDiffs' = <<>>
    /\ totalLinesChanged' = 0
    /\ pc' = "collect"
    /\ UNCHANGED <<outside, queries, env, files, budgetPerFile, unusedBudget, truncatedFiles,
                   diffParts, result, prev>>

\* Variant of CollectDiff: the diff is fetched once to count its lines and
\* once more to keep it.
CollectDiffFetchTwice ==
    /\ pc = "collect"
    /\ Len(fileDiffs) < Len(codeFiles)
    /\ LET file == codeFiles[Len(fileDiffs) + 1]
           diff == getFileDiff(file)
           c == countDiffLines(getFileDiff(file))
       IN  /\ totalLinesChanged' = totalLinesChanged + c.added + c.removed
           /\ fileDiffs' = Append(fileDiffs,
                                  [file |-> file, diff |-> diff,
                                   length |-> Len(diff), truncated |-> FALSE,
                                   allocatedBudget |-> {}])
           /\ queries' = queries \o <<DiffQuery(file), DiffQuery(file)>>
    /\ UNCHANGED <<outside, env, pc, files, mediaFiles, codeFiles, budgetPerFile,
                   unusedBudget, truncatedFiles, diffParts, result, prev>>

\* Variant of CollectDiff: lines are counted on the diff cut to the baseline.
CollectDiffAfterCut ==
    /\ pc = "collect"
    /\ Len(fileDiffs) < Len(codeFiles)
    /\ LET file == codeFiles[Len(fileDiffs) + 1]
           diff == getFileDiff(file)
           c == countDiffLines(Substring(diff, budget \div Len(codeFiles)))
       IN  /\ totalLinesChanged' = totalLinesChanged + c.added + c.removed
           /\ fileDiffs' = Append(fileDiffs,
                                  [file |-> file, diff |-> diff,
                                   length |-> Len(diff), truncated |-> FALSE,
                                   allocatedBudget |-> {}])
           /\ queries' = Append(queries, DiffQuery(file))
    /\ UNCHANGED <<outside, env, pc, files, mediaFiles, codeFiles, budgetPerFile,
                   unusedBudget, truncatedFiles, diffParts, result, prev>>

\* lines 129-139: one iteration of the collection loop
CollectDiff ==
    /\ pc = "collect"
    /\ Len(fileDiffs) < Len(codeFiles)
    /\ LET file == codeFiles[Len(fileDiffs) + 1]
           diff == getFileDiff(file)
           c == countDiffLines(diff)
       IN  /\ totalLinesChanged' = totalLinesChanged + c.added + c.removed
           /\ fileDiffs' = Append(fileDiffs,
                                  [file |-> file, diff |-> diff,
                                   length |-> Len(diff), truncated |-> FALSE,
                                   allocatedBudget |-> {}])
           /\ queries' = Append(queries, DiffQuery(file))
    /\ UNCHANGED <<outside, env, pc, files, mediaFiles, codeFiles, budgetPerFile,
                   unusedBudget, truncatedFiles, diffParts, result, prev>>

\* Variant of MediaOnly: the media-only listing gets header and blank line.
MediaOnlyWithHeader ==
    /\ pc = "collect"
    /\ Len(fileDiffs) = Len(codeFiles)
    /\ Len(codeFiles) = 0
    /\ result' = Returned(Join(<<<<"--- Media files (binary, showing names only) ---">>>>
                                  \o [i \in DOMAIN mediaFiles |->
                                         <<"[Media] ">> \o mediaFiles[i]]
                                  \o << <<>> >>),
                          0, Len(files))
    /\ pc' = "done"
    /\ UNCHANGED <<outside, queries, env, locals, prev>>

\* lines 142-147: only media files are staged
MediaOnly ==
    /\ pc = "collect"
    /\ Len(fileDiffs) = Len(codeFiles)
    /\ Len(codeFiles) = 0
    /\ result' = Returned(Join([i \in DOMAIN mediaFiles |->
                                   MediaOnlyLine(mediaFiles[i])]),
                          0, Len(files))
    /\ pc' = "done"
    /\ UNCHANGED <<outside, queries, env, locals, prev>>

\* line 149
BudgetPerFile(b, codeFileCount) == b \div codeFileCount

\* Variant of FirstPassLoop: a file of exactly the baseline length overflows.
RECURSIVE FirstPassLoopStrict(_, _, _, _, _)
FirstPassLoopStrict(fds, i, perFile, unused, truncated) ==
    IF i > Len(fds)
    THEN [fileDiffs |-> fds, unusedBudget |-> unused,
          truncatedFiles |-> truncated]
    ELSE IF fds[i].length < perFile
    THEN FirstPassLoopStrict(fds, i + 1, perFile,
                             unused + (perFile - fds[i].length), truncated)
    ELSE FirstPassLoopStrict([fds EXCEPT ![i].truncated = TRUE], i + 1,
                             perFile, unused, Append(truncated, i))

\* Variant of FirstPassLoop: greedy, a file may use the slack found so far.
RECURSIVE FirstPassLoopGreedy(_, _, _, _, _)
FirstPassLoopGreedy(fds, i, perFile, unused, truncated) ==
    IF i > Len(fds)
    THEN [fileDiffs |-> fds, unusedBudget |-> unused,
          truncatedFiles |-> truncated]
    ELSE IF fds[i].length <= perFile + unused
    THEN FirstPassLoopGreedy(fds, i + 1, perFile,
                             unused + (perFile - fds[i].length), truncated)
    ELSE FirstPassLoopGreedy([fds EXCEPT ![i].truncated = TRUE], i + 1,
                             perFile, unused, Append(truncated, i))

\* lines 155-164: the loop of the first pass, from index i on
RECURSIVE FirstPassLoop(_, _, _, _, _)
FirstPassLoop(fds, i, perFile, unused, truncated) ==
    IF i > Len(fds)
    THEN [fileDiffs |-> fds, unusedBudget |-> unused,
          truncatedFiles |-> truncated]
    ELSE IF fds[i].length <= perFile
    THEN FirstPassLoop(fds, i + 1, perFile,
                       unused + (perFile - fds[i].length), truncated)
    ELSE FirstPassLoop([fds EXCEPT ![i].truncated = TRUE], i + 1, perFile,
                       unused, Append(truncated, i))

\* Variant of FirstPass: the budget is divided by the count of all files.
FirstPassAllFiles ==
    /\ pc = "collect"
    /\ Len(fileDiffs) = Len(codeFiles)
    /\ Len(codeFiles) # 0
    /\ budgetPerFile' = BudgetPerFile(budget, Len(files))
    /\ LET r == FirstPassLoop(fileDiffs, 1, budgetPerFile', 0, <<>>)
       IN  /\ fileDiffs' = r.fileDiffs
           /\ unusedBudget' = r.unusedBudget
           /\ truncatedFiles' = r.truncatedFiles
    /\ pc' = "redistribute"
    /\ UNCHANGED <<outside, queries, env, files, mediaFiles, codeFiles, totalLinesChanged,
                   diffParts, result, prev>>

\* lines 149-164: baseline and first pass
FirstPass ==
    /\ pc = "collect"
    /\ Len(fileDiffs) = Len(codeFiles)
    /\ Len(codeFiles) # 0
    /\ budgetPerFile' = BudgetPerFile(budget, Len(codeFiles))
    /\ LET r == FirstPassLoop(fileDiffs, 1, budgetPerFile', 0, <<>>)
       IN  /\ fileDiffs' = r.fileDiffs
           /\ unusedBudget' = r.unusedBudget
           /\ truncatedFiles' = r.truncatedFiles
    /\ pc' = "redistribute"
    /\ UNCHANGED <<outside, queries, env, files, mediaFiles, codeFiles, totalLinesChanged,
                   diffParts, result, prev>>

\* Variant of ExtraPerFile: the share is rounded up.
ExtraPerFileCeil(unused, truncatedCount) ==
    (unused + truncatedCount - 1) \div truncatedCount

\* line 168
ExtraPerFile(unused, truncatedCount) == unused \div truncatedCount

\* Variant of Redistributed: every truncated file receives the whole slack.
RedistributedWhole(perFile, unused, truncatedCount) ==
    IF unused > 0 /\ truncatedCount > 0
    THEN perFile + unused
    ELSE perFile

\* Variant of Redistributed: the share replaces the baseline.
RedistributedExtraOnly(perFile, unused, truncatedCount) ==
    IF unused > 0 /\ truncatedCount > 0
    THEN ExtraPerFile(unused, truncatedCount)
    ELSE perFile

\* lines 167-176: the allocation every truncated file receives
Redistributed(perFile, unused, truncatedCount) ==
    IF unused > 0 /\ truncatedCount > 0
    THEN perFile + ExtraPerFile(unused, truncatedCount)
    ELSE perFile

\* lines 166-176: second pass
SecondPass ==
    /\ pc = "redistribute"
    /\ fileDiffs' =
         [i \in DOMAIN fileDiffs |->
            IF i \in Range(truncatedFiles)
            THEN [fileDiffs[i] EXCEPT !.allocatedBudget =
                    {Redistributed(budgetPerFile, unusedBudget,
                                   Len(truncatedFiles))}]
            ELSE fileDiffs[i]]
    /\ pc' = "assemble"
    /\ UNCHANGED <<outside, queries, env, files, mediaFiles, codeFiles, totalLinesChanged,
                   budgetPerFile, unusedBudget, truncatedFiles, diffParts,
                   result, prev>>

\* Variant of MediaBlock: no blank separator after the media names.
MediaBlockNoBlank(media) ==
    IF Len(media) > 0
    THEN <<HeaderPart>> \o [i \in DOMAIN media |-> MediaPart(media[i])]
    ELSE <<>>

\* lines 182-188: the media block
MediaBlock(media) ==
    IF Len(media) > 0
    THEN <<HeaderPart>> \o [i \in DOMAIN media |-> MediaPart(media[i])]
            \o <<BlankPart>>
    ELSE <<>>

\* Variant of CodeParts: a file with an empty diff is left out.
CodePartsSkipEmpty(fd, perFile) ==
    IF fd.length = 0 THEN <<>>
    ELSE IF fd.truncated /\ Truthy(fd.allocatedBudget)
    THEN <<TextPart(Substring(fd.diff, ValueOf(fd.allocatedBudget))),
           NotePart(fd.file, fd.length - ValueOf(fd.allocatedBudget))>>
    ELSE IF fd.length > perFile
    THEN <<TextPart(Substring(fd.diff, perFile)),
           NotePart(fd.file, fd.length - perFile)>>
    ELSE <<TextPart(fd.diff)>>

\* Variant of CodeParts: without the branch for a falsy allocatedBudget.
CodePartsNoFallback(fd, perFile) ==
    IF fd.truncated /\ Truthy(fd.allocatedBudget)
    THEN <<TextPart(Substring(fd.diff, ValueOf(fd.allocatedBudget))),
           NotePart(fd.file, fd.length - ValueOf(fd.allocatedBudget))>>
    ELSE <<TextPart(fd.diff)>>

\* Variant of CodeParts: the annotation counts from the baseline.
CodePartsBaselineOmitted(fd, perFile) ==
    IF fd.truncated /\ Truthy(fd.allocatedBudget)
    THEN <<TextPart(Substring(fd.diff, ValueOf(fd.allocatedBudget))),
           NotePart(fd.file, fd.length - perFile)>>
    ELSE IF fd.length > perFile
    THEN <<TextPart(Substring(fd.diff, perFile)),
           NotePart(fd.file, fd.length - perFile)>>
    ELSE <<TextPart(fd.diff)>>

\* lines 192-204: the parts pushed for one code file
CodeParts(fd, perFile) ==
    IF fd.truncated /\ Truthy(fd.allocatedBudget)
    THEN <<TextPart(Substring(fd.diff, ValueOf(fd.allocatedBudget))),
           NotePart(fd.file, fd.length - ValueOf(fd.allocatedBudget))>>
    ELSE IF fd.length > perFile
    THEN <<TextPart(Substring(fd.diff, perFile)),
           NotePart(fd.file, fd.length - perFile)>>
    ELSE <<TextPart(fd.diff)>>

RECURSIVE CodeBlock(_, _)
CodeBlock(fds, perFile) ==
    IF fds = <<>> THEN <<>>
    ELSE CodeParts(Head(fds), perFile) \o CodeBlock(Tail(fds), perFile)

\* lines 178-212: assemble and return
Assemble ==
    /\ pc = "assemble"
    /\ diffParts' = MediaBlock(mediaFiles) \o CodeBlock(fileDiffs, budgetPerFile)
    /\ result' = Returned(Join(RenderAll(diffParts')), totalLinesChanged,
                          Len(files))
    /\ pc' = "done"
    /\ UNCHANGED <<outside, queries, env, files, mediaFiles, codeFiles, fileDiffs,
                   totalLinesChanged, budgetPerFile, unusedBudget,
                   truncatedFiles, prev>>

\* ------------------------------------------------ the calls that follow
\* What a finished call leaves behind for comparison with the next one.
Snapshot ==
    [ran |-> TRUE, staged |-> staged, budget |-> budget, result |-> result,
     files |-> files, codeFiles |-> codeFiles, fileDiffs |-> fileDiffs,
     budgetPerFile |-> budgetPerFile, diffParts |-> diffParts]

\* The next call: a new frame starts, the finished one is kept in prev.
\* The model follows a call and the call after it.
NextCall ==
    /\ pc = "done"
    /\ ~prev.ran
    /\ prev' = Snapshot
    /\ pc' = "start"
    /\ result' = NoResult
    /\ queries' = <<>>
    /\ UNCHANGED <<locals, outside>>

\* Called again on the same index with the same budget.
InvokeAgain ==
    /\ NextCall
    /\ UNCHANGED env

\* Called again with another budget.
InvokeWithBudget ==
    /\ NextCall
    /\ budget' \in Budgets \ {budget}
    /\ UNCHANGED <<staged, repoDiff>>

\* Called again after the same paths are reported in another order.
InvokeReordered ==
    /\ NextCall
    /\ staged' \in {l \in StagedLists : Range(l) = Range(staged)} \ {staged}
    /\ UNCHANGED <<repoDiff, budget>>

\* Called again after media files were staged or unstaged.
InvokeMediaChanged ==
    /\ NextCall
    /\ staged' \in {l \in StagedLists : CodeOf[l] = CodeOf[staged]} \ {staged}
    /\ UNCHANGED <<repoDiff, budget>>

Next ==
    \/ ListFiles
    \/ Classify
    \/ CollectDiff
    \/ MediaOnly
    \/ FirstPass
    \/ SecondPass
    \/ Assemble
    \/ InvokeAgain
    \/ InvokeWithBudget
    \/ InvokeReordered
    \/ InvokeMediaChanged

Spec == Init /\ [][Next]_vars

\* ------------------------------------------- one call with the default budget
\* line 20
DEFAULT_DIFF_BUDGET == 128000

\* getSmartStagedDiff() without an argument, on any staged list git reports;
\* the diffs are empty, of one line or of two.
RunInit ==
    /\ staged \in StagedLists
    /\ repoDiff \in {d \in [CodePaths -> {DiffEmpty, DiffOne, DiffTwo}] :
                        \A p \in CodePaths :
                            p \notin Range(staged) => d[p] = DiffEmpty}
    /\ budget = DEFAULT_DIFF_BUDGET
    /\ pc = "start"
    /\ FrameInit
    /\ OutsideIdle

\* The steps of a single call.
Run ==
    \/ ListFiles
    \/ Classify
    \/ CollectDiff
    \/ MediaOnly
    \/ FirstPass
    \/ SecondPass
    \/ Assemble

\* The function is synchronous: a call that has started keeps stepping until
\* it returns.
RunSpec == RunInit /\ [][Run]_vars /\ WF_vars(Run)

\* ------------------------------------------------ countDiffLines on its own
MaxText == 5

DiffChars == {"+", "-", "x", NL}

CounterTexts == UNION {[1..n -> DiffChars] : n \in 0..MaxText}

\* No getSmartStagedDiff call is running.
AllocatorIdle ==
    /\ staged = <<>>
    /\ repoDiff = [p \in CodePaths |-> DiffEmpty]
    /\ budget = DEFAULT_DIFF_BUDGET
    /\ pc = "idle"
    /\ FrameInit

CounterInit ==
    /\ cdText \in CounterTexts
    /\ cdOut = NoCount
    /\ CollectorIdle
    /\ ConfigIdle
    /\ HookIdle
    /\ InstallIdle
    /\ AllocatorIdle

\* lines 85-99: countDiffLines(cdText) returns
CountLines ==
    /\ ~cdOut.returned
    /\ cdOut' = [added |-> countDiffLines(cdText).added,
                 removed |-> countDiffLines(cdText).removed,
                 returned |-> TRUE]
    /\ UNCHANGED <<cdText, collectorVars, configVars, hookVars,
                   allocatorVars,
                   installVars>>

CounterNext == CountLines

CounterSpec == CounterInit /\ [][CounterNext]_vars

\* ------------------------------------ getStagedFileList / getFileDiff alone
\* What git can print for the name-only queries.
ListOutputs ==
    {<<>>, <<NL>>,
     PathA \o <<NL>>,
     PathA \o <<NL>> \o PathC \o <<NL>>,
     PathC \o <<NL, NL>> \o PathX,
     <<" ", NL>> \o PathB \o <<NL>>}

\* What git can print for the diff of one path.
DiffOutputs == DiffTexts \cup {<<"+", "a", NL>>, <<NL>>}

Outcomes(fn) ==
    {Threw} \cup {Output(t) : t \in IF fn = "list" THEN ListOutputs
                                     ELSE DiffOutputs}

\* lines 42 and 50: output.trim().split('\n').filter(f => f.length > 0)
ParseList(output) == SelectSeq(Split(trim(output)), LAMBDA f : Len(f) > 0)

\* What the function makes of the output of a query that succeeded.
ValueFrom(fn, output) == IF fn = "list" THEN ParseList(output) ELSE output

CollectorInit ==
    /\ qFn \in {"list", "diff"}
    /\ qPrimary \in Outcomes(qFn)
    /\ qFallback \in Outcomes(qFn)
    /\ qpc = "try"
    /\ qIssued = <<>>
    /\ qRet = NoReturn
    /\ CounterIdle
    /\ ConfigIdle
    /\ HookIdle
    /\ InstallIdle
    /\ AllocatorIdle

\* Variant of PrimaryQuery: an empty output is taken for a failure.
PrimaryQueryEmptyFails ==
    /\ qpc = "try"
    /\ qIssued' = Append(qIssued, "cached")
    /\ IF qPrimary.ok /\ qPrimary.out # <<>>
       THEN /\ qRet' = Return(ValueFrom(qFn, qPrimary.out))
            /\ qpc' = "returned"
       ELSE /\ qRet' = qRet
            /\ qpc' = "catch"
    /\ UNCHANGED <<qFn, qPrimary, qFallback, counterVars, configVars,
                   hookVars, allocatorVars,
                   installVars>>

\* lines 37-42 and 63-67: the query on the index (git diff --cached)
PrimaryQuery ==
    /\ qpc = "try"
    /\ qIssued' = Append(qIssued, "cached")
    /\ IF qPrimary.ok
       THEN /\ qRet' = Return(ValueFrom(qFn, qPrimary.out))
            /\ qpc' = "returned"
       ELSE /\ qRet' = qRet
            /\ qpc' = "catch"
    /\ UNCHANGED <<qFn, qPrimary, qFallback, counterVars, configVars,
                   hookVars, allocatorVars,
                   installVars>>

\* lines 43-50 and 68-73: the query against HEAD, inside the catch block
FallbackQuery ==
    /\ qpc = "catch"
    /\ qIssued' = Append(qIssued, "HEAD")
    /\ IF qFallback.ok
       THEN /\ qRet' = Return(ValueFrom(qFn, qFallback.out))
            /\ qpc' = "returned"
       ELSE /\ qRet' = qRet
            /\ qpc' = "catch again"
    /\ UNCHANGED <<qFn, qPrimary, qFallback, counterVars, configVars,
                   hookVars, allocatorVars,
                   installVars>>

\* lines 51-53 and 74-76: the inner catch returns [] or ''
ReturnEmpty ==
    /\ qpc = "catch again"
    /\ qRet' = Return(<<>>)
    /\ qpc' = "returned"
    /\ UNCHANGED <<qFn, qPrimary, qFallback, qIssued, counterVars,
                   configVars, hookVars, allocatorVars,
                   installVars>>

CollectorNext ==
    \/ PrimaryQuery
    \/ FallbackQuery
    \/ ReturnEmpty

CollectorSpec == CollectorInit /\ [][CollectorNext]_vars

\* --------------------------------------------------------- configuration
\* String.prototype.toUpperCase()
toUpperCase(s) ==
    [i \in DOMAIN s |->
        IF \E k \in DOMAIN Lower : Lower[k] = s[i]
        THEN Upper[CHOOSE k \in DOMAIN Lower : Lower[k] = s[i]]
        ELSE s[i]]

IsDigit(c) == \E k \in DOMAIN Digits : Digits[k] = c

DigitValue(c) == (CHOOSE k \in DOMAIN Digits : Digits[k] = c) - 1

\* The number a run of decimal digits stands for.
RECURSIVE NatOf(_)
NatOf(d) ==
    IF d = <<>> THEN 0
    ELSE NatOf(SubSeq(d, 1, Len(d) - 1)) * 10 + DigitValue(d[Len(d)])

\* The longest run of digits a text starts with.
RECURSIVE DigitsPrefix(_)
DigitsPrefix(s) ==
    IF s # <<>> /\ IsDigit(Head(s))
    THEN <<Head(s)>> \o DigitsPrefix(Tail(s))
    ELSE <<>>

\* parseInt(s, 10): leading white space, a sign, then the digits up to the
\* first other character; NaN when there is no digit.
parseInt(s) ==
    LET t == trimStart(s)
        signed == t # <<>> /\ Head(t) \in {"+", "-"}
        d == DigitsPrefix(IF signed THEN Tail(t) ELSE t)
    IN  IF d = <<>> THEN NaN
        ELSE IF signed /\ Head(t) = "-" THEN JsNum(0 - NatOf(d))
        ELSE JsNum(NatOf(d))

\* JavaScript truthiness of a value.
JsTruthy(v) ==
    \/ v.kind = "number" /\ v.n # 0
    \/ v.kind = "string" /\ v.s # <<>>

\* part_000 lines 13-15
DEFAULT_CONFIG == [diffBudget |-> JsNum(128000)]

\* part_000 lines 34 and 53: loadConfig() threw
LoadThrew == [threw |-> TRUE, apiKey |-> FALSE, diffBudget |-> Undefined]

\* Variant of loadConfig: the variable is only consulted when the file
\* stores no diffBudget.
loadConfigStoredFirst(file, key, envText) ==
    IF file.kind = "garbage" THEN LoadThrew
    ELSE LET stored == file.kind = "object"
                          /\ file.diffBudget.kind # "undefined"
             parsed == parseInt(envText)
             diffBudget == IF stored THEN file.diffBudget
                           ELSE IF envText # <<>> /\ parsed.kind = "number"
                                   /\ parsed.n > 0
                           THEN parsed
                           ELSE DEFAULT_CONFIG.diffBudget
         IN  IF ~(key \/ file.apiKey) THEN LoadThrew
             ELSE [threw |-> FALSE, apiKey |-> TRUE, diffBudget |-> diffBudget]

\* part_000 lines 22-64: loadConfig() throws or returns the merged config
loadConfig(file, key, envText) ==
    IF file.kind = "garbage" THEN LoadThrew
    ELSE LET merged == IF file.kind = "object"
                          /\ file.diffBudget.kind # "undefined"
                       THEN file.diffBudget
                       ELSE DEFAULT_CONFIG.diffBudget
             parsed == parseInt(envText)
             diffBudget == IF envText # <<>> /\ parsed.kind = "number"
                              /\ parsed.n > 0
                           THEN parsed
                           ELSE merged
         IN  IF ~(key \/ file.apiKey) THEN LoadThrew
             ELSE [threw |-> FALSE, apiKey |-> TRUE, diffBudget |-> diffBudget]

\* part_000 lines 112-119
getDiffBudget(file, key, envText) ==
    LET config == loadConfig(file, key, envText)
    IN  IF config.threw THEN DEFAULT_CONFIG.diffBudget
        ELSE IF JsTruthy(config.diffBudget) THEN config.diffBudget
        ELSE DEFAULT_CONFIG.diffBudget

\* part_000 lines 91-106: read (an unreadable file counts as {}), set, write
saveDiffBudget(file, n) ==
    IF file.kind = "object" THEN [file EXCEPT !.diffBudget = JsNum(n)]
    ELSE Object(FALSE, JsNum(n))

\* part_000 lines 70-85
saveApiKey(file) ==
    IF file.kind = "object" THEN [file EXCEPT !.apiKey = TRUE]
    ELSE Object(TRUE, Undefined)

\* commands/config.js line 37: budget.toUpperCase().match(/^(\d+)(K)?$/)
BudgetMatch(text) ==
    LET u == toUpperCase(text)
        k == u # <<>> /\ u[Len(u)] = "K"
        d == IF k THEN SubSeq(u, 1, Len(u) - 1) ELSE u
    IN  [matched |-> d # <<>> /\ \A i \in DOMAIN d : IsDigit(d[i]),
         digits |-> d, K |-> k]

\* commands/config.js lines 35-46: parsedBudget for a string argument
parsedBudget(text) ==
    LET match == BudgetMatch(text)
    IN  IF ~match.matched THEN Undefined
        ELSE IF match.K THEN JsNum(NatOf(match.digits) * 1000)
        ELSE JsNum(NatOf(match.digits))

\* What a user types after set-diff-budget, and what the variable can hold.
BudgetArgs ==
    {<<>>, <<"7">>, <<"2", "k">>, <<"0">>, <<"x">>, <<"-", "5">>,
     <<"7", "K", "K">>}

EnvBudgets ==
    {<<>>, <<"9">>, <<"9", "x">>, <<"x">>, <<"0">>, <<"-", "3">>,
     <<" ", "4">>}

\* diffBudget values a hand-edited config file can hold.
StoredBudgets ==
    {Undefined, JsNum(5), JsNum(0), JsNum(0 - 5), JsStr(<<"a", "b", "c">>)}

ConfigFiles ==
    {Absent, Garbage}
        \cup {Object(k, b) : k \in BOOLEAN, b \in StoredBudgets}

ConfigInit ==
    /\ cfgFile \in ConfigFiles
    /\ envKey \in BOOLEAN
    /\ envBudget \in EnvBudgets
    /\ gotBudget = Undefined
    /\ cmdError = FALSE
    /\ lastSet = NoSet
    /\ CounterIdle
    /\ CollectorIdle
    /\ HookIdle
    /\ InstallIdle
    /\ AllocatorIdle

\* commands/config.js lines 29-67: nullcommits config set-diff-budget <text>
setDiffBudget ==
    \E text \in BudgetArgs :
        LET parsed == parsedBudget(text)
            rejected == \/ text = <<>>
                        \/ parsed.kind # "number"
                        \/ parsed.n <= 0
        IN  /\ cmdError' = rejected
            /\ lastSet' = [b |-> IF rejected THEN lastSet.b ELSE parsed,
                           before |-> cfgFile]
            /\ cfgFile' = IF rejected THEN cfgFile
                          ELSE saveDiffBudget(cfgFile, parsed.n)
            /\ gotBudget' = Undefined
            /\ UNCHANGED <<envKey, envBudget, counterVars, collectorVars,
                           hookVars, allocatorVars,
                   installVars>>

\* commands/config.js lines 7-23: nullcommits config set-key sk-...
setKey ==
    /\ cmdError' = FALSE
    /\ cfgFile' = saveApiKey(cfgFile)
    /\ gotBudget' = Undefined
    /\ lastSet' = lastSet
    /\ UNCHANGED <<envKey, envBudget, counterVars, collectorVars,
                   hookVars, allocatorVars,
                   installVars>>

\* hook-runner.js line 42: const diffBudget = getDiffBudget()
ReadBudget ==
    /\ gotBudget = Undefined
    /\ gotBudget' = getDiffBudget(cfgFile, envKey, envBudget)
    /\ UNCHANGED <<cfgFile, envKey, envBudget, cmdError, lastSet, counterVars,
                   collectorVars, hookVars, allocatorVars,
                   installVars>>

\* commands/config.js lines 72-79: nullcommits config show-diff-budget
showDiffBudget ==
    /\ gotBudget' = getDiffBudget(cfgFile, envKey, envBudget)
    /\ cmdError' = FALSE
    /\ UNCHANGED <<cfgFile, envKey, envBudget, lastSet, counterVars,
                   collectorVars, hookVars, allocatorVars,
                   installVars>>

ConfigNext ==
    \/ setDiffBudget
    \/ setKey
    \/ ReadBudget
    \/ showDiffBudget

ConfigSpec == ConfigInit /\ [][ConfigNext]_vars

\* ------------------------------------------------ processCommitMessage
\* hook-runner.js lines 32-36: the prefixes of commits left alone
MergePrefix == <<"M", "e", "r", "g", "e", " ">>
RevertPrefix == <<"R", "e", "v", "e", "r", "t", " ">>
HumanPrefix == <<"H", "u", "m", "a", "n", ":">>
FixupPrefix == <<"f", "i", "x", "u", "p", "!">>
SquashPrefix == <<"s", "q", "u", "a", "s", "h", "!">>

IsSpecialCommit(message) ==
    \/ StartsWith(message, MergePrefix)
    \/ StartsWith(message, RevertPrefix)
    \/ StartsWith(message, HumanPrefix)
    \/ StartsWith(message, FixupPrefix)
    \/ StartsWith(message, SquashPrefix)

\* openai.js line 113: message.trim().replace(/^["']|["']$/g, '')
IsQuote(c) == c \in {"\"", "'"}

StripQuotes(s) ==
    LET t == IF s # <<>> /\ IsQuote(Head(s)) THEN Tail(s) ELSE s
    IN  IF t # <<>> /\ IsQuote(t[Len(t)]) THEN SubSeq(t, 1, Len(t) - 1)
        ELSE t

\* What the user can have typed, what the diff can be and how a request to
\* the service can end.
Messages ==
    {<<>>,
     <<"f", "i", "x">>,
     <<" ", "f", "i", "x", NL>>,
     MergePrefix \o <<"x">>,
     <<"M", "e", "r", "g", "e", "d">>,
     <<" ">> \o RevertPrefix \o <<"y", NL>>,
     HumanPrefix \o <<"h", "i">>,
     FixupPrefix \o <<" ", "a">>,
     SquashPrefix}

HookDiffs == {<<>>, <<NL>>, <<" ", NL, " ">>, DiffOne, DiffTwo}

Replies ==
    {Threw, Output(<<>>), Output(<<"B">>),
     Output(<<"\"", "B", "e", "t", "t", "e", "r", "\"", NL>>)}

HookInit ==
    /\ msgFile \in {NoFile} \cup {File(t) : t \in Messages}
    /\ hInitial = msgFile
    /\ hDiff \in HookDiffs
    /\ hReply \in Replies
    /\ hpc = "start"
    /\ originalMessage = <<>>
    /\ enhancedMessage = <<>>
    /\ hRequests = 0
    /\ hWrites = 0
    /\ cfgFile \in {Absent, Object(TRUE, JsNum(7))}
    /\ envKey = FALSE
    /\ envBudget = <<>>
    /\ gotBudget = Undefined
    /\ cmdError = FALSE
    /\ lastSet = NoSet
    /\ CounterIdle
    /\ CollectorIdle
    /\ InstallIdle
    /\ AllocatorIdle

\* lines 25-39: read the message, leave special commits alone
ReadMessage ==
    /\ hpc = "start"
    /\ IF ~msgFile.exists
       THEN /\ hpc' = "threw"
            /\ originalMessage' = originalMessage
       ELSE /\ originalMessage' = trim(msgFile.content)
            /\ hpc' = IF IsSpecialCommit(originalMessage') THEN "returned"
                      ELSE "diff"
    /\ UNCHANGED <<msgFile, hInitial, hDiff, hReply, enhancedMessage,
                   hRequests, hWrites, counterVars, collectorVars,
                   configVars, allocatorVars,
                   installVars>>

\* Variant of GetDiff: the diff is tested without trimming it.
GetDiffNoTrim ==
    /\ hpc = "diff"
    /\ gotBudget' = getDiffBudget(cfgFile, envKey, envBudget)
    /\ hpc' = IF hDiff = <<>> THEN "returned" ELSE "generate"
    /\ UNCHANGED <<msgFile, hInitial, hDiff, hReply, originalMessage,
                   enhancedMessage, hRequests, hWrites, cfgFile, envKey,
                   envBudget, cmdError, lastSet, counterVars, collectorVars,
                   allocatorVars,
                   installVars>>

\* lines 42-48: getDiffBudget(), getSmartStagedDiff(diffBudget), and the
\* return when the diff is blank
GetDiff ==
    /\ hpc = "diff"
    /\ gotBudget' = getDiffBudget(cfgFile, envKey, envBudget)
    /\ hpc' = IF trim(hDiff) = <<>> THEN "returned" ELSE "generate"
    /\ UNCHANGED <<msgFile, hInitial, hDiff, hReply, originalMessage,
                   enhancedMessage, hRequests, hWrites, cfgFile, envKey,
                   envBudget, cmdError, lastSet, counterVars, collectorVars,
                   allocatorVars,
                   installVars>>

\* lines 55-59 with openai.js lines 78-123: await generateCommitMessage.
\* loadConfig throws before any request; a request that fails or brings an
\* empty message rejects the call.
Generate ==
    /\ hpc = "generate"
    /\ IF loadConfig(cfgFile, envKey, envBudget).threw
       THEN /\ hRequests' = hRequests
            /\ enhancedMessage' = enhancedMessage
            /\ hpc' = "threw"
       ELSE /\ hRequests' = hRequests + 1
            /\ IF hReply.ok /\ hReply.out # <<>>
               THEN /\ enhancedMessage' = StripQuotes(trim(hReply.out))
                    /\ hpc' = "write"
               ELSE /\ enhancedMessage' = enhancedMessage
                    /\ hpc' = "threw"
    /\ UNCHANGED <<msgFile, hInitial, hDiff, hReply, originalMessage,
                   hWrites, counterVars, collectorVars, configVars,
                   allocatorVars,
                   installVars>>

\* line 62: fs.writeFileSync(msgFile, enhancedMessage, 'utf-8')
WriteBack ==
    /\ hpc = "write"
    /\ msgFile' = File(enhancedMessage)
    /\ hWrites' = hWrites + 1
    /\ hpc' = "returned"
    /\ UNCHANGED <<hInitial, hDiff, hReply, originalMessage,
                   enhancedMessage, hRequests, counterVars, collectorVars,
                   configVars, allocatorVars,
                   installVars>>

HookNext ==
    \/ ReadMessage
    \/ GetDiff
    \/ Generate
    \/ WriteBack

HookSpec == HookInit /\ [][HookNext]_vars

\* --------------------------------------------------- install / uninstall
\* String.prototype.includes(part)
Includes(s, part) ==
    \E i \in 0..(Len(s) - Len(part)) : SubSeq(s, i + 1, i + Len(part)) = part

\* git.js line 314: the text that marks a hook as installed by nullcommits
HookMark == <<"n", "u", "l", "l", "c", "o", "m", "m", "i", "t">>

\* git.js lines 321-337: generateHookScript()
generateHookScript ==
    <<"#!/bin/sh", NL, "# ">> \o HookMark
        \o <<"s - AI-powered commit message enhancer", NL,
             "# This hook was installed by ">> \o HookMark
        \o <<"s. Do not edit manually.", NL,
             "COMMIT_MSG_FILE=... ">> \o HookMark
        \o <<"s process \"$COMMIT_MSG_FILE\" ... exit 0", NL>>

\* git.js lines 306-315: isHookInstalled()
isHookInstalled(hook) == hook.exists /\ Includes(hook.content, HookMark)

\* What a prepare-commit-msg or .backup file can hold: nothing, a hook of
\* another tool, one that stops a letter short of the mark, one that calls
\* nullcommits itself, and the generated script.
ForeignHook == <<"#!/bin/sh", NL, "exit 0", NL>>
NearHook == <<"#", " ">> \o SubSeq(HookMark, 1, 9) \o <<NL>>
WrapperHook == <<"#!/bin/sh", NL>> \o HookMark \o <<"s process $1", NL>>

HookContents ==
    {<<>>, ForeignHook, NearHook, WrapperHook, generateHookScript}

HookStates == {NoFile} \cup {File(c) : c \in HookContents}

InstallInit ==
    /\ isRepo \in BOOLEAN
    /\ hooksDir \in BOOLEAN
    /\ hookFile \in HookStates
    /\ backupFile \in HookStates
    /\ ~hooksDir => hookFile = NoFile /\ backupFile = NoFile
    /\ lastCmd = NoCmd
    /\ tripFrom = NoTrip
    /\ CounterIdle
    /\ CollectorIdle
    /\ ConfigIdle
    /\ HookIdle
    /\ AllocatorIdle

\* The command threw before it touched a file.
Failed(name) ==
    /\ lastCmd' = [name |-> name, ok |-> FALSE,
                   before |-> HookFiles(hooksDir, hookFile, backupFile)]
    /\ tripFrom' = NoTrip
    /\ UNCHANGED <<hooksDir, hookFile, backupFile>>

\* commands/install.js lines 14-51
install ==
    /\ IF ~isRepo \/ isHookInstalled(hookFile)
       THEN Failed("install")
       ELSE /\ hooksDir' = TRUE
            /\ backupFile' = IF hookFile.exists THEN hookFile ELSE backupFile
            /\ hookFile' = File(generateHookScript)
            /\ lastCmd' = [name |-> "install", ok |-> TRUE,
                           before |-> HookFiles(hooksDir, hookFile, backupFile)]
            /\ tripFrom' = NoTrip
    /\ UNCHANGED <<isRepo, counterVars, collectorVars, configVars, hookVars,
                   allocatorVars>>

\* commands/uninstall.js lines 11-33
uninstall ==
    /\ IF ~isRepo \/ ~isHookInstalled(hookFile)
       THEN Failed("uninstall")
       ELSE /\ hookFile' = IF backupFile.exists THEN backupFile ELSE NoFile
            /\ backupFile' = NoFile
            /\ tripFrom' = IF lastCmd.name = "install" /\ lastCmd.ok
                           THEN [made |-> TRUE, before |-> lastCmd.before]
                           ELSE NoTrip
            /\ lastCmd' = [name |-> "uninstall", ok |-> TRUE,
                           before |-> HookFiles(hooksDir, hookFile, backupFile)]
            /\ UNCHANGED hooksDir
    /\ UNCHANGED <<isRepo, counterVars, collectorVars, configVars, hookVars,
                   allocatorVars>>

InstallNext ==
    \/ install
    \/ uninstall

InstallSpec == InstallInit /\ [][InstallNext]_vars

\* ================================================================ claims
\* What a call was given, read from git and not from the call's locals.
CodeStaged == CodeOf[staged]
MediaStaged == MediaOf[staged]
LensOf(code) == [i \in DOMAIN code |-> Len(repoDiff[code[i]])]
DiffLens == LensOf(CodeStaged)

IsText(part) == part.kind = "text"
IsMediaLine(part) == part.kind = "media"

\* The diff bodies of an assembled output and the characters each includes.
Bodies(parts) == SelectSeq(parts, IsText)
Included(parts) ==
    LET b == Bodies(parts) IN [i \in DOMAIN b |-> Len(b[i].text)]

\* The call has returned from the allocation path / has finished allocating.
FullRun == pc = "done" /\ CodeStaged # <<>>
Allocated == pc \in {"assemble", "done"} /\ CodeStaged # <<>>

\* The two-pass allocation as the specification states it.
RefBaseline(b, lens) == b \div Len(lens)
RefOverflow(lens, base) == {i \in DOMAIN lens : lens[i] > base}
RefSlack(lens, base) ==
    SumSeq([i \in DOMAIN lens |->
              IF lens[i] <= base THEN base - lens[i] ELSE 0])
RefAllocation(base, slack, overflowCount) ==
    IF slack > 0 THEN base + (slack \div overflowCount) ELSE base

\* C1: the diff characters included over all code files never exceed the
\* budget.
C1_BudgetBound ==
    FullRun => SumSeq(Included(diffParts)) <= budget

C1_Witness ==
    /\ FullRun
    /\ Len(truncatedFiles) > 0
    /\ unusedBudget > 0
    /\ SumSeq(Included(diffParts)) = budget

\* C2: the returned text has exactly one body per code file (a prefix of its
\* diff) and exactly one name line per media file, each group in staged order.
C2_Coverage ==
    pc = "done" =>
        LET code == CodeStaged
            media == MediaStaged
        IN  IF staged = <<>> THEN result.diff = <<>>
            ELSE IF code = <<>>
            THEN Split(result.diff)
                    = [i \in DOMAIN media |-> MediaOnlyLine(media[i])]
            ELSE LET names == SelectSeq(diffParts, IsMediaLine)
                     bodies == Bodies(diffParts)
                 IN  /\ result.diff = Join(RenderAll(diffParts))
                     /\ [i \in DOMAIN names |-> names[i].file] = media
                     /\ Len(bodies) = Len(code)
                     /\ \A i \in DOMAIN code :
                           bodies[i].text
                              = Substring(repoDiff[code[i]], Len(bodies[i].text))

C2_Witness ==
    /\ FullRun
    /\ Len(MediaStaged) = 2
    /\ isCodeFile(staged[1])
    /\ \E i \in DOMAIN DiffLens : Included(diffParts)[i] < DiffLens[i]

\* C3: every overflowing file is allocated at least the baseline and the
\* body rendered for it has length min(length, allocatedBudget).
C3_BudgetRespect ==
    Allocated =>
        LET lens == DiffLens
            base == RefBaseline(budget, lens)
            included == Included(diffParts)
        IN  \A i \in RefOverflow(lens, base) :
                /\ fileDiffs[i].allocatedBudget # {}
                /\ ValueOf(fileDiffs[i].allocatedBudget) >= base
                /\ pc = "done" =>
                     included[i]
                        = Min(lens[i], ValueOf(fileDiffs[i].allocatedBudget))

C3_Witness ==
    /\ FullRun
    /\ \E i \in RefOverflow(DiffLens, RefBaseline(budget, DiffLens)) :
          /\ ValueOf(fileDiffs[i].allocatedBudget) > DiffLens[i]
          /\ Included(diffParts)[i] = DiffLens[i]

\* C4: the allocation equals the two-pass reference: baseline, slack of the
\* unconstrained files, baseline + floor(slack / overflow count) for every
\* overflowing file, exactly the baseline when there is no slack.
C4_TwoPassReference ==
    Allocated =>
        LET lens == DiffLens
            base == RefBaseline(budget, lens)
            over == RefOverflow(lens, base)
            slack == RefSlack(lens, base)
        IN  /\ budgetPerFile = base
            /\ unusedBudget = slack
            /\ Range(truncatedFiles) = over
            /\ \A i \in DOMAIN lens \ over :
                  ~fileDiffs[i].truncated /\ fileDiffs[i].allocatedBudget = {}
            /\ \A i \in over :
                  /\ fileDiffs[i].truncated
                  /\ fileDiffs[i].allocatedBudget
                        = {RefAllocation(base, slack, Cardinality(over))}

C4_Witness ==
    /\ FullRun
    /\ budget = 300
    /\ DiffLens = <<50, 100, 1000>>
    /\ budgetPerFile = 100
    /\ unusedBudget = 50
    /\ fileDiffs[3].allocatedBudget = {150}
    /\ fileDiffs[1].allocatedBudget = {}
    /\ fileDiffs[2].allocatedBudget = {}

\* C5: the top-up handed out is at most the slack and less than one unit per
\* overflowing file is left undistributed.
TopUp(over, base) ==
    SumSeq([i \in DOMAIN fileDiffs |->
              IF i \in over
              THEN ValueOf(fileDiffs[i].allocatedBudget) - base
              ELSE 0])

C5_SlackConservation ==
    Allocated =>
        LET lens == DiffLens
            base == RefBaseline(budget, lens)
            over == RefOverflow(lens, base)
            slack == RefSlack(lens, base)
            topUp == TopUp(over, base)
        IN  over # {} =>
                /\ topUp <= slack
                /\ slack - topUp < Cardinality(over)

C5_Witness ==
    /\ Allocated
    /\ LET lens == DiffLens
           base == RefBaseline(budget, lens)
           over == RefOverflow(lens, base)
       IN  /\ Cardinality(over) >= 2
           /\ TopUp(over, base) > 0
           /\ RefSlack(lens, base) - TopUp(over, base) > 0

\* The previous call ran on the same staged list; both took the allocation
\* path.
SameListAgain == FullRun /\ prev.ran /\ prev.staged = staged

\* C6: with the diffs fixed, a larger budget never includes fewer characters
\* of any file, also for a file that stops overflowing.
C6_Monotone ==
    SameListAgain =>
        LET now == Included(diffParts)
            before == Included(prev.diffParts)
        IN  /\ prev.budget <= budget =>
                \A i \in DOMAIN now : before[i] <= now[i]
            /\ budget <= prev.budget =>
                \A i \in DOMAIN now : now[i] <= before[i]

C6_Witness ==
    /\ SameListAgain
    /\ prev.budget < budget
    /\ \E i \in DOMAIN fileDiffs :
          prev.fileDiffs[i].truncated /\ ~fileDiffs[i].truncated
    /\ \E j \in DOMAIN fileDiffs :
          /\ fileDiffs[j].truncated
          /\ Included(prev.diffParts)[j] < Included(diffParts)[j]

\* C7: totalLinesChanged is the sum of added + removed lines of the full
\* diffs, whatever the budget and whether or not a file is truncated.
LinesOf(diff) == countDiffLines(diff).added + countDiffLines(diff).removed

C7_LineCount ==
    FullRun =>
        LET code == CodeStaged IN
        /\ result.totalLinesChanged
              = SumSeq([i \in DOMAIN code |-> LinesOf(repoDiff[code[i]])])
        /\ (prev.ran /\ prev.staged = staged) =>
              result.totalLinesChanged = prev.result.totalLinesChanged

C7_Witness ==
    /\ SameListAgain
    /\ prev.budget # budget
    /\ result.totalLinesChanged > 0
    /\ \A i \in DOMAIN prev.fileDiffs : ~prev.fileDiffs[i].truncated
    /\ \E i \in DOMAIN fileDiffs :
          /\ fileDiffs[i].truncated
          /\ LinesOf(Bodies(diffParts)[i].text) # LinesOf(fileDiffs[i].diff)

\* C8: a second run on the same staged list, diffs and budget returns the same
\* text, the same totalLinesChanged and the same fileCount.
C8_Idempotent ==
    (pc = "done" /\ prev.ran /\ prev.staged = staged /\ prev.budget = budget)
        => result = prev.result

C8_Witness ==
    /\ SameListAgain
    /\ prev.budget = budget
    /\ result.totalLinesChanged > 0
    /\ Len(truncatedFiles) > 0
    /\ MediaStaged # <<>>
    /\ result = prev.result

\* C9: under a permutation of the staged files every file is classified the
\* same way and receives the same allocatedBudget.
C9_OrderIndependent ==
    (FullRun /\ prev.ran /\ prev.budget = budget
        /\ Range(prev.staged) = Range(staged)) =>
        /\ Len(fileDiffs) = Len(prev.fileDiffs)
        /\ \A i \in DOMAIN fileDiffs :
              \E j \in DOMAIN prev.fileDiffs :
                  /\ prev.fileDiffs[j].file = fileDiffs[i].file
                  /\ prev.fileDiffs[j].truncated = fileDiffs[i].truncated
                  /\ prev.fileDiffs[j].allocatedBudget
                        = fileDiffs[i].allocatedBudget

C9_Witness ==
    /\ FullRun
    /\ prev.ran
    /\ prev.budget = budget
    /\ Range(prev.staged) = Range(staged)
    /\ prev.codeFiles # codeFiles
    /\ unusedBudget > 0
    /\ Len(truncatedFiles) >= 2
    /\ fileDiffs[1].truncated
    /\ ~prev.fileDiffs[1].truncated

\* C10: media files take no part in the budget accounting: staging or
\* unstaging them changes neither the baseline nor any allocation nor any
\* rendered body, and every staged media file is listed by its full name.
C10_MediaOutsideBudget ==
    FullRun =>
        /\ \A f \in Range(MediaStaged) :
              \E k \in DOMAIN diffParts :
                  Render(diffParts[k]) = <<"[Media] ">> \o f
        /\ (prev.ran /\ prev.budget = budget
                /\ CodeOf[prev.staged] = CodeStaged) =>
              /\ budgetPerFile = prev.budgetPerFile
              /\ fileDiffs = prev.fileDiffs
              /\ Bodies(diffParts) = Bodies(prev.diffParts)

C10_Witness ==
    /\ FullRun
    /\ prev.ran
    /\ prev.budget = budget
    /\ CodeOf[prev.staged] = CodeStaged
    /\ MediaOf[prev.staged] = <<>>
    /\ Len(MediaStaged) = 2
    /\ Len(truncatedFiles) > 0
    /\ budget < Len(staged)

\* The text starts with the header line, one "[Media] name" line per media
\* file and a blank line, and rest is what follows them.
MediaBlockText(media) ==
    Join(<<Render(HeaderPart)>>
            \o [i \in DOMAIN media |-> <<"[Media] ">> \o media[i]]
            \o << <<>> >>)

StartsWithMediaBlock(text, media) ==
    StartsWith(text, MediaBlockText(media) \o <<NL>>)

AfterMediaBlock(text, media) ==
    SubSeq(text, Len(MediaBlockText(media)) + 2, Len(text))

\* C11 as stated: whenever a media file is staged, with or without code
\* files, the text starts with header line, media name lines and blank line.
C11_Original ==
    (pc = "done" /\ MediaStaged # <<>>)
        => StartsWithMediaBlock(result.diff, MediaStaged)

\* C11 as amended: when media files and at least one code file are staged the
\* text is the header line, one name line per media file and a blank line,
\* followed by the code diff bodies; when only media files are staged the text
\* is one "[Media file] name" line per media file, without header or blank
\* line.
C11_MediaBlockFirst ==
    (pc = "done" /\ MediaStaged # <<>>) =>
        LET media == MediaStaged IN
        IF CodeStaged # <<>>
        THEN /\ StartsWithMediaBlock(result.diff, media)
             /\ AfterMediaBlock(result.diff, media)
                  = Join(RenderAll(CodeBlock(fileDiffs, budgetPerFile)))
        ELSE /\ result.diff
                  = Join([i \in DOMAIN media |-> MediaOnlyLine(media[i])])
             /\ ~StartsWithMediaBlock(result.diff, media)

C11_Witness ==
    /\ FullRun
    /\ Len(MediaStaged) = 2
    /\ Len(CodeStaged) = 1
    /\ DiffLens[1] > 0
    /\ StartsWithMediaBlock(result.diff, MediaStaged)

IsNote(part) == part.kind = "note"

\* The annotation line as the specification words it.
Annotation(file, omitted) ==
    <<NL, "... [">> \o file \o <<" diff truncated, ">> \o Decimal(omitted)
        \o <<" chars omitted]">>

\* The part of the returned text that holds the code diffs.
CodeText ==
    IF MediaStaged = <<>> THEN result.diff
    ELSE AfterMediaBlock(result.diff, MediaStaged)

\* C12: a truncated file appears as the first allocatedBudget characters of
\* its diff followed by exactly one annotation naming the file and stating
\* length - allocatedBudget; an unconstrained file appears in full, without
\* annotation.
C12_TruncationRendering ==
    FullRun =>
        LET code == CodeStaged
            notes == SelectSeq(diffParts, IsNote)
            cut == {i \in DOMAIN fileDiffs : fileDiffs[i].truncated}
            Expected(i) ==
                LET diff == repoDiff[code[i]]
                    n == ValueOf(fileDiffs[i].allocatedBudget)
                IN  IF i \in cut
                    THEN Substring(diff, n) \o <<NL>>
                            \o Annotation(code[i], Len(diff) - n)
                    ELSE diff
        IN  /\ Len(fileDiffs) = Len(code)
            /\ CodeText = Join([i \in DOMAIN code |-> Expected(i)])
            /\ Len(notes) = Cardinality(cut)
            /\ \A i \in cut :
                  Cardinality({k \in DOMAIN notes :
                                  notes[k].file = code[i]}) = 1
            /\ \A k \in DOMAIN notes :
                  \E i \in cut : notes[k].file = code[i]

C12_Witness ==
    /\ FullRun
    /\ budget = 300
    /\ DiffLens = <<50, 100, 1000>>
    /\ diffParts = <<TextPart(LongDiff(50)), TextPart(LongDiff(100)),
                     TextPart(SubSeq(LongDiff(1000), 1, 150)),
                     NotePart(PathC, 850)>>
    /\ Render(diffParts[4])
          = <<NL, "... [", "m", "k", " diff truncated, ", "8", "5", "0",
              " chars omitted]">>

\* C13: with no code file staged the result is totalLinesChanged 0, fileCount
\* the number of staged files and one marker-prefixed line per media file in
\* staged order (the empty text when nothing is staged); otherwise fileCount
\* is the number of media files plus the number of code files.
C13_NoCodeFiles ==
    pc = "done" =>
        LET media == MediaStaged IN
        IF CodeStaged = <<>>
        THEN /\ result.totalLinesChanged = 0
             /\ result.fileCount = Len(staged)
             /\ result.diff
                   = Join([i \in DOMAIN media |->
                             <<"[Media file] ">> \o media[i]])
             /\ staged = <<>> => result.diff = <<>>
        ELSE result.fileCount = Len(media) + Len(CodeStaged)

C13_Witness ==
    /\ pc = "done"
    /\ staged = <<PathY, PathX>>
    /\ result.fileCount = 2
    /\ result.totalLinesChanged = 0
    /\ result.diff = <<"[Media file] ">> \o PathY \o <<NL>>
                        \o <<"[Media file] ">> \o PathX

\* C20: an annotation is emitted only for a file that lost at least one
\* character: the omitted count it states is at least 1 and equals the diff
\* length minus the length of the body rendered before it.
C20_OmittedIsReal ==
    FullRun =>
        \A k \in DOMAIN diffParts :
            IsNote(diffParts[k]) =>
                /\ diffParts[k].omitted >= 1
                /\ \E i \in DOMAIN fileDiffs :
                      /\ fileDiffs[i].file = diffParts[k].file
                      /\ diffParts[k].omitted
                            = fileDiffs[i].length - Len(diffParts[k - 1].text)

\* ------------------------------------------------------------------ C18
\* The queries a whole run sends: the list query, then one diff query per
\* staged code file in staged order, none for a media file.
ExpectedQueries ==
    <<ListQuery>> \o [i \in DOMAIN CodeStaged |-> DiffQuery(CodeStaged[i])]

IsPrefix(s, t) == Len(s) <= Len(t) /\ SubSeq(t, 1, Len(s)) = s

\* At every point of a run the queries sent are a prefix of the expected
\* ones: nothing before the call starts, all of them from the allocation
\* pass on (or only the list query when nothing is staged).
QueryOrder ==
    /\ IsPrefix(queries, ExpectedQueries)
    /\ pc = "start" <=> queries = <<>>
    /\ pc = "collect" => Len(queries) = 1 + Len(fileDiffs)
    /\ pc \in {"redistribute", "assemble"} => queries = ExpectedQueries
    /\ pc = "done" =>
          queries = IF staged = <<>> THEN <<ListQuery>> ELSE ExpectedQueries

\* C18: in one run the list query is the first and only list query, then
\* exactly one diff is fetched per staged code file, in staged order, none
\* for a media file, all of them before the allocation pass; and every run
\* returns.
C18_SequentialQueries == []QueryOrder /\ <>(pc = "done" /\ result.returned)

\* A run over code, media, code has returned after three queries.
C18_Witness ==
    /\ pc = "done"
    /\ staged = <<PathA, PathX, PathB>>
    /\ queries = <<ListQuery, DiffQuery(PathA), DiffQuery(PathB)>>
    /\ Len(diffParts) > 0

\* ------------------------------------------------------------------ C19
\* Positions at which a line of the text starts.
LineStarts(text) == {i \in 1..Len(text) : i = 1 \/ text[i - 1] = NL}

\* The line that starts at i begins with one c but not with three.
MarkedOnce(text, i, c) ==
    /\ text[i] = c
    /\ ~(i + 2 <= Len(text) /\ text[i + 1] = c /\ text[i + 2] = c)

AddedLines(text) == {i \in LineStarts(text) : MarkedOnce(text, i, "+")}
RemovedLines(text) == {i \in LineStarts(text) : MarkedOnce(text, i, "-")}
LineCount(text) == 1 + Cardinality({i \in 1..Len(text) : text[i] = NL})

\* C19: countDiffLines returns added = the lines starting with + but not
\* +++, removed = the lines starting with - but not ---; no line is in
\* both, and added + removed is at most the number of lines.
C19_CountDiffLines ==
    cdOut.returned =>
        /\ cdOut.added = Cardinality(AddedLines(cdText))
        /\ cdOut.removed = Cardinality(RemovedLines(cdText))
        /\ AddedLines(cdText) \cap RemovedLines(cdText) = {}
        /\ cdOut.added + cdOut.removed <= LineCount(cdText)

\* A +++ header line followed by an added line: one added, none removed.
C19_Witness ==
    /\ cdText = <<"+", "+", "+", NL, "+">>
    /\ cdOut = [added |-> 1, removed |-> 0, returned |-> TRUE]

\* ------------------------------------------------------------------ C14
\* C14: getStagedFileList and getFileDiff never raise; they return what the
\* primary query gave when it succeeded, else what the fallback query gave
\* when that succeeded, else the empty sequence / text; the fallback query
\* is issued only after the primary one failed, and both results are
\* returned the same way.
C14_FallbackChain ==
    /\ ~qRet.raised
    /\ \A i \in DOMAIN qIssued :
          qIssued[i] = "HEAD" => i = 2 /\ qIssued[1] = "cached" /\ ~qPrimary.ok
    /\ qpc = "returned" =>
          /\ qRet.returned
          /\ qIssued = IF qPrimary.ok THEN <<"cached">>
                       ELSE <<"cached", "HEAD">>
          /\ qRet.value = IF qPrimary.ok THEN ValueFrom(qFn, qPrimary.out)
                          ELSE IF qFallback.ok
                               THEN ValueFrom(qFn, qFallback.out)
                          ELSE <<>>
          /\ qFn = "diff" /\ qPrimary.ok => qRet.value = qPrimary.out
          /\ qFn = "diff" /\ ~qPrimary.ok /\ qFallback.ok =>
                qRet.value = qFallback.out

\* The list query on the index failed and the one against HEAD listed two
\* paths.
C14_Witness ==
    /\ qpc = "returned"
    /\ qFn = "list"
    /\ ~qPrimary.ok
    /\ qIssued = <<"cached", "HEAD">>
    /\ qRet.value = <<PathC, PathX>>

\* ------------------------------------------------------------------ C15
\* A diffBudget is stored in the config file; the variable holds a valid
\* value.
StoredSetting == cfgFile.kind = "object" /\ cfgFile.diffBudget.kind # "undefined"
EnvValue == parseInt(envBudget)
EnvValid == envBudget # <<>> /\ EnvValue.kind = "number" /\ EnvValue.n > 0

\* loadConfig has something to return: the file, if any, parses, and an
\* API key comes from the file or from the environment.
ConfigLoads ==
    /\ cfgFile.kind # "garbage"
    /\ envKey \/ cfgFile.apiKey

\* C15 as stated: the stored setting wins over the environment value, the
\* environment value over the default, and the default is used only when
\* neither is present.
C15_Original ==
    gotBudget # Undefined =>
        gotBudget = IF StoredSetting THEN cfgFile.diffBudget
                    ELSE IF EnvValid THEN EnvValue
                    ELSE JsNum(DEFAULT_DIFF_BUDGET)

\* C15, amended: a valid NULLCOMMITS_DIFF_BUDGET wins over the stored
\* diffBudget, the stored diffBudget (when truthy) over the default 128000;
\* the default is used when neither is present, and also whenever
\* loadConfig throws (no API key in the file or the environment, or a
\* config file that is not JSON).
C15_EnvOverStored ==
    gotBudget # Undefined =>
        gotBudget = IF ~ConfigLoads THEN JsNum(DEFAULT_DIFF_BUDGET)
                    ELSE IF EnvValid THEN EnvValue
                    ELSE IF StoredSetting /\ JsTruthy(cfgFile.diffBudget)
                         THEN cfgFile.diffBudget
                    ELSE JsNum(DEFAULT_DIFF_BUDGET)

\* Budget 7 was stored by set-diff-budget, the variable says 9: 9 is used.
C15_Witness ==
    /\ cfgFile = Object(TRUE, JsNum(7))
    /\ envBudget = <<"9">>
    /\ gotBudget = JsNum(9)

\* ------------------------------------------------------------------ C16
\* C16: whatever the config file and the environment hold, the budget
\* getDiffBudget hands to getSmartStagedDiff is a positive integer.
C16_PositiveBudget ==
    gotBudget # Undefined => gotBudget.kind = "number" /\ gotBudget.n > 0

\* ------------------------------------------------------------------ C17
\* The message starts with one of the prefixes the claim names.
NamedSpecial ==
    LET message == trim(hInitial.content)
    IN  \/ StartsWith(message, MergePrefix)
        \/ StartsWith(message, RevertPrefix)
        \/ StartsWith(message, FixupPrefix)
        \/ StartsWith(message, SquashPrefix)

\* The diff is empty or white space only.
BlankDiff == \A i \in DOMAIN hDiff : hDiff[i] \in {" ", NL}

\* generateCommitMessage returned a message.
Generated == hpc \in {"write", "returned"} /\ hRequests = 1 /\ hReply.ok

\* C17: the message file is written at most once and only after
\* generateCommitMessage returned; with a blank diff, a special-commit
\* prefix or a failed generation the file keeps its content, and in the
\* first two cases the service is never asked.
C17_WriteOnce ==
    /\ hWrites <= 1
    /\ hWrites = 1 => Generated /\ msgFile = File(enhancedMessage)
    /\ hWrites = 0 => msgFile = hInitial
    /\ (hInitial.exists /\ (NamedSpecial \/ BlankDiff)) =>
          hRequests = 0 /\ hWrites = 0
    /\ hpc = "threw" => hWrites = 0
    /\ hRequests <= 1

\* A blank diff: the call returned, nothing was asked and nothing written.
C17_Witness ==
    /\ hpc = "returned"
    /\ hInitial = File(<<"f", "i", "x">>)
    /\ hDiff = <<" ", NL, " ">>
    /\ gotBudget # Undefined
    /\ hRequests = 0
    /\ msgFile = hInitial

\* ------------------------------------------------------------------ C21
\* C21: an install that succeeded on a hook that was absent or foreign,
\* followed by an uninstall that succeeded, leaves the hook as it was and no
\* .backup file; an install on an installed hook and an uninstall on a hook
\* that is not installed fail and change no file.
C21_InstallRoundTrip ==
    /\ tripFrom.made =>
          /\ hookFile = tripFrom.before.hook
          /\ backupFile = NoFile
    /\ ~lastCmd.ok =>
          HookFiles(hooksDir, hookFile, backupFile) = lastCmd.before
    /\ lastCmd.name = "install" /\ isHookInstalled(lastCmd.before.hook) =>
          ~lastCmd.ok
    /\ lastCmd.name = "uninstall" /\ ~isHookInstalled(lastCmd.before.hook) =>
          ~lastCmd.ok

\* ------------------------------------------------------------------ C22
\* C22: with NULLCOMMITS_DIFF_BUDGET unset, once set-diff-budget stored b
\* every getDiffBudget / show-diff-budget returns b until the next
\* successful set-diff-budget, with or without an API key and across
\* set-key calls, which keep the stored budget as set-diff-budget keeps the
\* stored key; a set-diff-budget that rejects its argument leaves the
\* config file as it was.
C22_StoredBudgetReturned ==
    /\ lastSet.b # Undefined =>
          /\ cfgFile.kind = "object"
          /\ cfgFile.diffBudget = lastSet.b
          /\ lastSet.before.kind = "object" /\ lastSet.before.apiKey =>
                cfgFile.apiKey
          /\ envBudget = <<>> /\ gotBudget # Undefined =>
                gotBudget = lastSet.b
    /\ cmdError => cfgFile = lastSet.before

====
